---------------------------- MODULE Spec2Model ----------------------------
(***************************************************************************)
(* A model of mqtt-macro: the derive macro that turns the variants of an   *)
(* enum into topic patterns (mqtt-procmacro) and the run-time code it      *)
(* generates on top of the Topic type of the mqtt-macro crate.             *)
(*                                                                         *)
(* Strings are sequences of one-character strings, so that splitting on    *)
(* '/', joining and the text conversions are computed and not assumed.     *)
(***************************************************************************)
EXTENDS Integers, Sequences, FiniteSets, TLC

VARIABLES
    pc,        \* "source" | "aborted" | "derived": how far the derive macro got
    en,        \* the enum the macro was run on (a sequence of variants)
    topics,    \* impl_for_enum's `topics`: (variant name, pattern, has_payload)
    generator, \* impl_for_enum's `generator` after its sort: the dispatch order
    generic,   \* all_generic_topics(): the filter strings
    abort,     \* the abort! diagnostic that ended the expansion, or NoAbort
    wire,      \* the (topic, payload) pair in flight, or NoWire
    sent,      \* the value the pair in flight was encoded from, or NoValue
    result,    \* what from_topic_and_payload returned for it, or NoResult
    call,      \* a function of the two crates called on its own, or NoCall
    ret        \* what that call returned

vars == <<pc, en, topics, generator, generic, abort, wire, sent, result,
          call, ret>>

(***************************************************************************)
(* Bounds of the model.                                                    *)
(***************************************************************************)
\* The largest number of variants of an enum the macro is run on.
MaxVariants == 2
\* The largest u32 held by a field of a value that is encoded.
MaxU32 == 1
\* The largest number of parts of a pattern a function is called on.
MaxParts == 2

\* The largest number of characters of a topic or a layer that is pushed.
MaxChars == 3
\* The largest number of characters of a pattern string that is parsed.
MaxPattern == 5

(***************************************************************************)
(* Text.                                                                   *)
(***************************************************************************)
Slash == "/"
\* A byte that is no part of any UTF-8 text.
BadByte == "\\xFF"

Digits == <<"0", "1", "2", "3", "4", "5", "6", "7", "8", "9">>

IsDigit(c) == \E d \in 1..Len(Digits) : Digits[d] = c

DigitValue(c) == (CHOOSE d \in 1..Len(Digits) : Digits[d] = c) - 1

\* str::split('/'): the pieces between the separators; the empty string
\* yields one empty piece.
RECURSIVE SplitFrom(_, _, _)
SplitFrom(s, k, cur) ==
    IF k > Len(s) THEN <<cur>>
    ELSE IF s[k] = Slash THEN <<cur>> \o SplitFrom(s, k + 1, <<>>)
    ELSE SplitFrom(s, k + 1, Append(cur, s[k]))

split(s) == SplitFrom(s, 1, <<>>)

\* The pieces joined by '/' (used to build inputs and to state properties).
RECURSIVE JoinSlash(_)
JoinSlash(ps) ==
    IF ps = <<>> THEN <<>>
    ELSE IF Len(ps) = 1 THEN ps[1]
    ELSE ps[1] \o <<Slash>> \o JoinSlash(Tail(ps))

\* <u32 as Display>::to_string: decimal, no sign, no leading zero.
RECURSIVE u32_to_string(_)
u32_to_string(n) ==
    IF n < 10 THEN <<Digits[n + 1]>>
    ELSE u32_to_string(n \div 10) \o <<Digits[(n % 10) + 1]>>

RECURSIVE DecimalValue(_)
DecimalValue(s) ==
    IF s = <<>> THEN 0
    ELSE 10 * DecimalValue(SubSeq(s, 1, Len(s) - 1)) + DigitValue(s[Len(s)])

\* <u32 as FromStr>::from_str: an optional '+', then one or more digits
\* (leading zeros allowed).  Every text of the model has fewer than ten
\* digits, so the overflow error of from_str is out of reach.
u32_parse(s) ==
    LET body == IF s # <<>> /\ s[1] = "+" THEN Tail(s) ELSE s
    IN  IF body = <<>> \/ \E k \in 1..Len(body) : ~IsDigit(body[k])
        THEN [ok |-> FALSE, n |-> 0]
        ELSE [ok |-> TRUE, n |-> DecimalValue(body)]

(***************************************************************************)
(* mqtt-procmacro: the pattern type (`Topic` of the macro crate).          *)
(***************************************************************************)
Ident(s) == [kind |-> "Ident", s |-> s]
Literal(s) == [kind |-> "Literal", s |-> s]

\* A wrong TopicPart_eq: the equality #[derive(PartialEq)] would give.
TopicPart_eq_derived(self, other) == self = other

\* impl PartialEq for TopicPart
TopicPart_eq(self, other) ==
    IF self.kind = "Literal" /\ other.kind = "Literal"
    THEN self.s = other.s
    ELSE TRUE

\* impl PartialEq for Topic: the zip loop, position by position.
RECURSIVE Topic_eq_from(_, _, _)
Topic_eq_from(self, other, k) ==
    IF k > Len(self) THEN TRUE
    ELSE IF ~TopicPart_eq(self[k], other[k]) THEN FALSE
    ELSE Topic_eq_from(self, other, k + 1)

\* A wrong Topic_eq: the zip alone, which stops at the shorter pattern.
Topic_eq_zip(self, other) ==
    \A k \in 1..(IF Len(self) < Len(other) THEN Len(self) ELSE Len(other)) :
        TopicPart_eq(self[k], other[k])

Topic_eq(self, other) ==
    IF Len(self) # Len(other) THEN FALSE
    ELSE Topic_eq_from(self, other, 1)

\* One token of a pattern string.
topic_part(part) ==
    IF part[1] = "<" /\ part[Len(part)] = ">"
    THEN Ident(SubSeq(part, 2, Len(part) - 1))
    ELSE Literal(part)

\* Topic::from_string: the parts, or the abort on an empty layer.
RECURSIVE from_string_parts(_, _)
from_string_parts(parts, k) ==
    IF k > Len(parts) THEN [ok |-> TRUE, parts |-> <<>>]
    ELSE IF Len(parts[k]) = 0 THEN [ok |-> FALSE, parts |-> <<>>]
    ELSE LET rest == from_string_parts(parts, k + 1)
         IN  IF rest.ok
             THEN [ok |-> TRUE, parts |-> <<topic_part(parts[k])>> \o rest.parts]
             ELSE rest

\* A wrong from_string: the empty string is split like any other.
from_string_split(input) == from_string_parts(split(input), 1)

from_string(input) ==
    IF input = <<>> THEN [ok |-> TRUE, parts |-> <<>>]
    ELSE from_string_parts(split(input), 1)

\* Topic::filter_string: "+/" or the literal and "/" per part, then the last
\* character popped (String::pop of an empty string does nothing).
RECURSIVE filter_push(_, _)
filter_push(parts, k) ==
    IF k > Len(parts) THEN <<>>
    ELSE (IF parts[k].kind = "Ident" THEN <<"+", Slash>>
          ELSE parts[k].s \o <<Slash>>) \o filter_push(parts, k + 1)

\* A wrong filter_string: the last '/' is not popped.
filter_string_no_pop(parts) == filter_push(parts, 1)

filter_string(parts) ==
    LET filter == filter_push(parts, 1)
    IN  IF filter = <<>> THEN <<>> ELSE SubSeq(filter, 1, Len(filter) - 1)

(***************************************************************************)
(* mqtt-procmacro: one variant of the enum.                                *)
(*                                                                         *)
(* A variant is [kind, fields, topic, payload, ser, de]: kind is "Named",  *)
(* "Unnamed" or "Unit"; fields is the sequence of [name, ty] it declares   *)
(* (a tuple variant's names are its indexes); topic and payload are the    *)
(* attribute values [set, s]; ser and de say whether serialize_using and   *)
(* deserialize_using name the zero_bytes_option functions.                 *)
(***************************************************************************)
NoAbort == [kind |-> "none", names |-> <<>>, variants |-> <<>>]

\* abort!(...): the diagnostic, by its kind and the names it mentions.
Abort(kind, names) == [kind |-> kind, names |-> names, variants |-> <<>>]

NoField == [name |-> <<>>, ty |-> "none"]

\* The IdentifiedField list of a variant.
variant_fields(variant) ==
    IF variant.kind = "Unnamed"
    THEN [k \in 1..Len(variant.fields) |->
             [name |-> u32_to_string(k - 1), ty |-> variant.fields[k].ty]]
    ELSE variant.fields

\* iter().find(|f| f.name == name) / iter().position(...): the first index.
Position(fields, name) ==
    IF \E k \in 1..Len(fields) : fields[k].name = name
    THEN CHOOSE k \in 1..Len(fields) :
             /\ fields[k].name = name
             /\ \A j \in 1..(k - 1) : fields[j].name # name
    ELSE 0

\* What iter().find(...) gave: the field at the index found, or the abort
\* for a path that names no field.
found_field(fields, k, path) ==
    IF k = 0
    THEN [ok |-> FALSE, field |-> NoField,
          abort |-> Abort("UnknownField", <<path>>)]
    ELSE [ok |-> TRUE, field |-> fields[k], abort |-> NoAbort]

\* find_field of a tuple variant: the path is parsed as a u32 and the field
\* with that index as its name is looked for.
find_unnamed(fields, path, idx) ==
    IF ~idx.ok
    THEN [ok |-> FALSE, field |-> NoField,
          abort |-> Abort("InvalidIdentifier", <<path>>)]
    ELSE found_field(fields, Position(fields, u32_to_string(idx.n)), path)

\* find_field: the field a path names, or the abort.
find_field(field_type, fields, path) ==
    IF field_type = "Unnamed"
    THEN find_unnamed(fields, path, u32_parse(path))
    ELSE found_field(fields, Position(fields, path), path)

RemoveAt(s, k) == SubSeq(s, 1, k - 1) \o SubSeq(s, k + 1, Len(s))

\* A wrong process_field: the field found is not removed.
process_field_no_remove(not_processed_fields, name) ==
    IF Position(not_processed_fields, name) = 0
    THEN [ok |-> FALSE, left |-> not_processed_fields,
          abort |-> Abort("SpecifiedMoreThanOnce", <<name>>)]
    ELSE [ok |-> TRUE, left |-> not_processed_fields, abort |-> NoAbort]

\* A wrong process_field: a field that is gone is let through.
process_field_no_abort(not_processed_fields, name) ==
    IF Position(not_processed_fields, name) = 0
    THEN [ok |-> TRUE, left |-> not_processed_fields, abort |-> NoAbort]
    ELSE [ok |-> TRUE,
          left |-> RemoveAt(not_processed_fields,
                            Position(not_processed_fields, name)),
          abort |-> NoAbort]

\* The process_field closure: the field leaves not_processed_fields, or the
\* abort when it is no longer there.
process_field(not_processed_fields, name) ==
    IF Position(not_processed_fields, name) = 0
    THEN [ok |-> FALSE, left |-> not_processed_fields,
          abort |-> Abort("SpecifiedMoreThanOnce", <<name>>)]
    ELSE [ok |-> TRUE,
          left |-> RemoveAt(not_processed_fields,
                            Position(not_processed_fields, name)),
          abort |-> NoAbort]

NoSchema ==
    [fields |-> <<>>, field_type |-> "none", topic |-> <<>>, topic_len |-> 0,
     has_payload |-> FALSE, payload |-> NoField, ser |-> FALSE, de |-> FALSE]

Failed(a) == [ok |-> FALSE, abort |-> a, schema |-> NoSchema]

\* A field is looked up and then consumed: find_field followed by
\* process_field, the first abort! ending both.
use_field(found, not_processed_fields) ==
    IF ~found.ok
    THEN [ok |-> FALSE, left |-> not_processed_fields, abort |-> found.abort]
    ELSE process_field(not_processed_fields, found.field.name)

\* The loop of generate_variant_impl over topic.parts: each Ident is looked
\* up and consumed, in order, until the first abort!.  `done` is what the
\* parts before k left: [ok, left, abort].
RECURSIVE topic_layers(_, _, _, _, _)
topic_layers(field_type, fields, parts, k, done) ==
    IF k > Len(parts) \/ ~done.ok THEN done
    ELSE topic_layers(field_type, fields, parts, k + 1,
             IF parts[k].kind = "Literal" THEN done
             ELSE use_field(find_field(field_type, fields, parts[k].s),
                            done.left))

\* The payload attribute: "<field_name>" with the brackets taken off.
payload_path(value) ==
    IF value # <<>> /\ value[1] = "<" /\ value[Len(value)] = ">"
    THEN [ok |-> TRUE, path |-> SubSeq(value, 2, Len(value) - 1)]
    ELSE [ok |-> FALSE, path |-> <<>>]

\* The field of the payload attribute, found and consumed before the topic
\* is walked.
payload_found(found, done) ==
    [ok |-> done.ok, field |-> found.field, left |-> done.left,
     abort |-> done.abort]

\* The payload of a variant: no field without the attribute, the abort for
\* a value that is not "<field_name>", else the field it names.
payload_field(variant, fields, path) ==
    IF ~variant.payload.set
    THEN [ok |-> TRUE, field |-> NoField, left |-> fields, abort |-> NoAbort]
    ELSE IF ~path.ok
    THEN [ok |-> FALSE, field |-> NoField, left |-> fields,
          abort |-> Abort("PayloadNotBracketed", <<>>)]
    ELSE payload_found(find_field(variant.kind, fields, path.path),
             use_field(find_field(variant.kind, fields, path.path), fields))

FieldNames(fields) == [k \in 1..Len(fields) |-> fields[k].name]

\* The end of generate_variant_impl: the abort of the walk over the topic,
\* the abort for the fields that are left, or the schema.
variant_schema(variant, fields, parts, payload, walk) ==
    IF ~walk.ok THEN Failed(walk.abort)
    ELSE IF walk.left # <<>>
    THEN Failed(Abort("NotPartOfTopicOrPayload", FieldNames(walk.left)))
    ELSE [ok |-> TRUE, abort |-> NoAbort,
          schema |->
              [fields |-> fields, field_type |-> variant.kind,
               topic |-> parts, topic_len |-> Len(parts),
               has_payload |-> variant.payload.set,
               payload |-> payload,
               ser |-> variant.payload.set /\ variant.ser,
               de |-> variant.payload.set /\ variant.de]]

\* generate_variant_impl once the fields, the topic and the payload
\* attribute are read: the payload field is consumed, then the topic is
\* walked.
variant_impl(variant, fields, topic, payload) ==
    IF ~topic.ok THEN Failed(Abort("EmptyTopicLayer", <<>>))
    ELSE IF ~payload.ok THEN Failed(payload.abort)
    ELSE variant_schema(variant, fields, topic.parts, payload.field,
             topic_layers(variant.kind, fields, topic.parts, 1,
                 [ok |-> TRUE, left |-> payload.left, abort |-> NoAbort]))

\* generate_variant_impl: the schema of one variant (its pattern, its
\* fields, its payload field and codec), or the abort that rejects it.
generate_variant_impl(variant) ==
    IF variant.kind = "Unit" THEN Failed(Abort("UnitVariant", <<>>))
    ELSE IF ~variant.topic.set THEN Failed(Abort("TopicNotDefined", <<>>))
    ELSE variant_impl(variant, variant_fields(variant),
             from_string(variant.topic.s),
             payload_field(variant, variant_fields(variant),
                           payload_path(variant.payload.s)))

(***************************************************************************)
(* mqtt-procmacro: impl_for_enum.                                          *)
(***************************************************************************)
\* A wrong find_topic: no entry is ever found.
find_topic_none(tps, topic) == 0

\* topics.iter().find(|(v, t, p)| *t == topic): the first entry, or 0.
find_topic(tps, topic) ==
    IF \E k \in 1..Len(tps) : Topic_eq(tps[k].topic, topic)
    THEN CHOOSE k \in 1..Len(tps) :
             /\ Topic_eq(tps[k].topic, topic)
             /\ \A j \in 1..(k - 1) : ~Topic_eq(tps[j].topic, topic)
    ELSE 0

\* One more entry placed by the stable sort on descending topic_len: after
\* every entry that is at least as long.
RECURSIVE sort_insert(_, _)
sort_insert(sorted, g) ==
    IF sorted = <<>> THEN <<g>>
    ELSE IF Head(sorted).topic_len >= g.topic_len
    THEN <<Head(sorted)>> \o sort_insert(Tail(sorted), g)
    ELSE <<g>> \o sorted

\* A wrong sort_by: the generator left in the order of the variants.
sort_by_unsorted(gen) == gen

\* generator.sort_by(|a, b| b.2.cmp(&a.2)): slice::sort_by is stable.
RECURSIVE sort_by(_)
sort_by(gen) ==
    IF gen = <<>> THEN <<>>
    ELSE sort_insert(sort_by(SubSeq(gen, 1, Len(gen) - 1)), gen[Len(gen)])

\* One turn of the loop of impl_for_enum: the abort of the variant, the
\* abort for a topic filter that is there already, or the variant added to
\* `topics` and `generator`.
for_variant(k, v, hit, tps, gen) ==
    IF ~v.ok THEN [abort |-> v.abort, topics |-> tps, generator |-> gen]
    ELSE IF hit # 0
    THEN [abort |-> [kind |-> "SameTopicFilter", names |-> <<>>,
                     variants |-> <<tps[hit].variant, k>>],
          topics |-> tps, generator |-> gen]
    ELSE [abort |-> NoAbort,
          topics |-> Append(tps, [variant |-> k, topic |-> v.schema.topic,
                                  has_payload |-> v.schema.has_payload]),
          generator |-> Append(gen, [variant |-> k, schema |-> v.schema,
                                     topic_len |-> v.schema.topic_len])]

\* The variant k of the loop, its topic looked for in `topics`.
find_variant(k, v, tps, gen) ==
    for_variant(k, v, find_topic(tps, v.schema.topic), tps, gen)

\* The loop of impl_for_enum over en.variants, from variant k on, until the
\* first abort!.  `loop` is what the variants before k left.
RECURSIVE for_variants(_, _, _)
for_variants(variants, k, loop) ==
    IF k > Len(variants) \/ loop.abort # NoAbort THEN loop
    ELSE for_variants(variants, k + 1,
             find_variant(k, generate_variant_impl(variants[k]),
                          loop.topics, loop.generator))

\* What impl_for_enum generates after its loop: nothing after an abort!,
\* else the sorted generator and the filter strings of `topics`.
generated(loop) ==
    IF loop.abort # NoAbort
    THEN [abort |-> loop.abort, topics |-> loop.topics,
          generator |-> loop.generator, generic |-> <<>>]
    ELSE [abort |-> NoAbort, topics |-> loop.topics,
          generator |-> sort_by(loop.generator),
          generic |-> [k \in 1..Len(loop.topics) |->
                          filter_string(loop.topics[k].topic)]]

\* A wrong impl_for_enum: the filter strings taken from the sorted generator.
impl_for_enum_sorted(variants) ==
    LET loop == for_variants(variants, 1,
                    [abort |-> NoAbort, topics |-> <<>>, generator |-> <<>>])
    IN  IF loop.abort # NoAbort
        THEN [abort |-> loop.abort, topics |-> loop.topics,
              generator |-> loop.generator, generic |-> <<>>]
        ELSE [abort |-> NoAbort, topics |-> loop.topics,
              generator |-> sort_by(loop.generator),
              generic |-> [k \in 1..Len(loop.topics) |->
                  filter_string(sort_by(loop.generator)[k].schema.topic)]]

\* impl_for_enum: the whole expansion; the generated items are the sorted
\* generator and the filter strings of `topics`, in that order.
impl_for_enum(variants) ==
    generated(for_variants(variants, 1,
        [abort |-> NoAbort, topics |-> <<>>, generator |-> <<>>]))

(***************************************************************************)
(* mqtt-macro: the run-time Topic, a '/'-joined string.                    *)
(***************************************************************************)
\* Topic::new
new == <<>>

\* A wrong push: the '/' is written before the first layer too.
push_always_slash(inner, layer) == inner \o <<Slash>> \o layer

\* Topic::push
push(inner, layer) ==
    IF Len(inner) # 0 THEN inner \o <<Slash>> \o layer ELSE layer

\* A wrong push_front: the layer goes to the back.
push_front_back(inner, layer) ==
    IF Len(inner) # 0 THEN inner \o <<Slash>> \o layer ELSE layer

\* Topic::push_front
push_front(inner, layer) ==
    IF Len(inner) # 0 THEN layer \o <<Slash>> \o inner ELSE layer

\* Topic::layers
layers(inner) == split(inner)

(***************************************************************************)
(* Field values and their text forms.  A value is [t, s, n]: a String      *)
(* holds its text in s, a u32 its number in n, an Option<u32> is "None" or *)
(* "Some" with n.                                                          *)
(***************************************************************************)
StringV(s) == [t |-> "String", s |-> s, n |-> 0]
U32V(n) == [t |-> "u32", s |-> <<>>, n |-> n]
NoneV == [t |-> "None", s |-> <<>>, n |-> 0]
SomeV(n) == [t |-> "Some", s |-> <<>>, n |-> n]

\* ToString::to_string of a field pushed to the topic.
to_string(v) == IF v.t = "String" THEN v.s ELSE u32_to_string(v.n)

\* str::parse::<T>() of a topic layer: String::from_str copies the text and
\* never fails, u32::from_str is u32_parse.
parse(ty, value) ==
    IF ty = "String" THEN [ok |-> TRUE, v |-> StringV(value)]
    ELSE LET r == u32_parse(value)
         IN  [ok |-> r.ok, v |-> U32V(r.n)]

Quote == "\""
Null == <<"n", "u", "l", "l">>

\* serde_json::to_string.  The texts of the model hold no '"' and no '\',
\* the characters a JSON string escapes.
json_to_string(v) ==
    IF v.t = "String" THEN <<Quote>> \o v.s \o <<Quote>>
    ELSE IF v.t = "None" THEN Null
    ELSE u32_to_string(v.n)

\* A JSON number that fits a u32: "0", or digits that start with no zero.
json_u32(text) ==
    /\ text # <<>>
    /\ \A k \in 1..Len(text) : IsDigit(text[k])
    /\ (Len(text) > 1 => text[1] # "0")

\* serde_json::from_str::<T>.
json_from_str(ty, text) ==
    IF ty = "String"
    THEN IF /\ Len(text) >= 2
            /\ text[1] = Quote
            /\ text[Len(text)] = Quote
            /\ \A k \in 2..(Len(text) - 1) : text[k] # Quote
         THEN [ok |-> TRUE, v |-> StringV(SubSeq(text, 2, Len(text) - 1))]
         ELSE [ok |-> FALSE, v |-> NoneV]
    ELSE IF ty = "u32"
    THEN IF json_u32(text)
         THEN [ok |-> TRUE, v |-> U32V(DecimalValue(text))]
         ELSE [ok |-> FALSE, v |-> NoneV]
    ELSE IF text = Null THEN [ok |-> TRUE, v |-> NoneV]
    ELSE IF json_u32(text)
    THEN [ok |-> TRUE, v |-> SomeV(DecimalValue(text))]
    ELSE [ok |-> FALSE, v |-> NoneV]

NoErr == [kind |-> "none", a |-> <<>>, b |-> <<>>]
Err(kind, a, b) == [kind |-> kind, a |-> a, b |-> b]

from_utf8(payload) == \A k \in 1..Len(payload) : payload[k] # BadByte

\* serde_json_serialize: the JSON text appended to the payload.
serde_json_serialize(payload, v) == payload \o json_to_string(v)

\* serde_json_deserialize
serde_json_deserialize(ty, payload) ==
    IF ~from_utf8(payload)
    THEN [ok |-> FALSE, v |-> NoneV, err |-> Err("NotUtf8", <<>>, <<>>)]
    ELSE LET r == json_from_str(ty, payload)
         IN  IF r.ok THEN [ok |-> TRUE, v |-> r.v, err |-> NoErr]
             ELSE [ok |-> FALSE, v |-> NoneV, err |-> Err("Serde", <<>>, <<>>)]

\* zero_bytes_option_ser of an Option<u32>
zero_bytes_option_ser(payload, v) ==
    IF v.t = "Some" THEN payload \o json_to_string(U32V(v.n)) ELSE payload

\* zero_bytes_option_deser::<u32>
zero_bytes_option_deser(payload) ==
    IF Len(payload) = 0 THEN [ok |-> TRUE, v |-> NoneV, err |-> NoErr]
    ELSE IF ~from_utf8(payload)
    THEN [ok |-> FALSE, v |-> NoneV, err |-> Err("NotUtf8", <<>>, <<>>)]
    ELSE LET r == json_from_str("u32", payload)
         IN  IF r.ok THEN [ok |-> TRUE, v |-> SomeV(r.v.n), err |-> NoErr]
             ELSE [ok |-> FALSE, v |-> NoneV, err |-> Err("Serde", <<>>, <<>>)]

(***************************************************************************)
(* The code the macro generates for a variant, run on its schema.          *)
(***************************************************************************)
NoValue == [variant |-> 0, vals |-> <<>>]

\* The field a pattern parameter was resolved to when the macro ran.
bound_field(schema, path) ==
    find_field(schema.field_type, schema.fields, path).field

\* The value of a named field of a variant's value.
field_value(schema, value, name) ==
    value.vals[Position(schema.fields, name)]

\* A wrong topic_push: each part is pushed to the front of the topic.
RECURSIVE topic_push_front(_, _, _, _)
topic_push_front(schema, value, k, topic) ==
    IF k > Len(schema.topic) THEN topic
    ELSE topic_push_front(schema, value, k + 1,
             push_front(topic,
                  IF schema.topic[k].kind = "Literal" THEN schema.topic[k].s
                  ELSE to_string(field_value(schema, value,
                           bound_field(schema, schema.topic[k].s).name))))

\* #(#topic_push)*: one Topic::push per pattern part, in order.
RECURSIVE topic_push(_, _, _, _)
topic_push(schema, value, k, topic) ==
    IF k > Len(schema.topic) THEN topic
    ELSE topic_push(schema, value, k + 1,
             push(topic,
                  IF schema.topic[k].kind = "Literal" THEN schema.topic[k].s
                  ELSE to_string(field_value(schema, value,
                           bound_field(schema, schema.topic[k].s).name))))

\* A wrong payload_serialize: a variant without a payload field writes the
\* JSON of no value.
payload_serialize_null(schema, value, payload) ==
    IF ~schema.has_payload THEN serde_json_serialize(payload, NoneV)
    ELSE IF schema.ser
    THEN zero_bytes_option_ser(payload,
             field_value(schema, value, schema.payload.name))
    ELSE serde_json_serialize(payload,
             field_value(schema, value, schema.payload.name))

\* #payload_serialize: nothing without a payload field, else the override
\* or serde_json_serialize.
payload_serialize(schema, value, payload) ==
    IF ~schema.has_payload THEN payload
    ELSE IF schema.ser
    THEN zero_bytes_option_ser(payload,
             field_value(schema, value, schema.payload.name))
    ELSE serde_json_serialize(payload,
             field_value(schema, value, schema.payload.name))

\* The match arm of push_topic_and_payload for the value's variant.
push_topic_and_payload(schema, value, topic, payload) ==
    [topic |-> topic_push(schema, value, 1, topic),
     payload |-> payload_serialize(schema, value, payload)]

\* MqttItem::into_topic_and_payload: a new Topic and an empty payload,
\* filled by push_topic_and_payload.
into_topic_and_payload(schema, value) ==
    push_topic_and_payload(schema, value, new, <<>>)

\* The block generated for a literal part, on the layer topic.next() gives:
\* a layer that is missing or is another text is a MissingTopicLayer.
literal_parse(literal, ls, k) ==
    IF k > Len(ls) \/ ls[k] # literal
    THEN [ok |-> FALSE, v |-> NoneV,
          err |-> Err("MissingTopicLayer", literal, <<>>)]
    ELSE [ok |-> TRUE, v |-> NoneV, err |-> NoErr]

\* value.parse().map_err(...) of the block generated for a parameter.
parse_layer(name, value, parsed) ==
    IF parsed.ok THEN [ok |-> TRUE, v |-> parsed.v, err |-> NoErr]
    ELSE [ok |-> FALSE, v |-> NoneV,
          err |-> Err("InvalidTopicLayer", name, value)]

\* The block generated for a parameter bound to `field`.
ident_parse(field, ls, k) ==
    IF k > Len(ls)
    THEN [ok |-> FALSE, v |-> NoneV,
          err |-> Err("MissingTopicLayer", field.name, <<>>)]
    ELSE parse_layer(field.name, ls[k], parse(field.ty, ls[k]))

\* One more block run: its value kept, or its error returned.
parsed_layer(walk, layer) ==
    IF layer.ok
    THEN [ok |-> TRUE, err |-> NoErr, got |-> Append(walk.got, layer.v)]
    ELSE [ok |-> FALSE, err |-> layer.err, got |-> <<>>]

\* #(#topic_parse)*: the pattern parts against topic.next(), in order; the
\* first failure is returned, else the values parsed, by pattern position.
\* `walk` is what the parts before k gave: [ok, err, got].
RECURSIVE topic_parse(_, _, _, _)
topic_parse(schema, ls, k, walk) ==
    IF k > Len(schema.topic) \/ ~walk.ok THEN walk
    ELSE topic_parse(schema, ls, k + 1,
             parsed_layer(walk,
                 IF schema.topic[k].kind = "Literal"
                 THEN literal_parse(schema.topic[k].s, ls, k)
                 ELSE ident_parse(bound_field(schema, schema.topic[k].s),
                                  ls, k)))

\* A wrong payload_deserialize: deserialize_using is not looked at.
payload_deserialize_default(schema, payload) ==
    serde_json_deserialize(schema.payload.ty, payload)

\* #payload_deserialize
payload_deserialize(schema, payload) ==
    IF schema.de THEN zero_bytes_option_deser(payload)
    ELSE serde_json_deserialize(schema.payload.ty, payload)

\* The pattern position whose parameter is bound to a field.
part_of(schema, name) ==
    CHOOSE k \in 1..Len(schema.topic) :
        /\ schema.topic[k].kind = "Ident"
        /\ bound_field(schema, schema.topic[k].s).name = name

\* The end of a parse function: the error of the topic, the error of the
\* payload, or the value built from the fields.
parsed_fields(variant, schema, walk, body) ==
    IF ~walk.ok THEN [ok |-> FALSE, value |-> NoValue, err |-> walk.err]
    ELSE IF schema.has_payload /\ ~body.ok
    THEN [ok |-> FALSE, value |-> NoValue, err |-> body.err]
    ELSE [ok |-> TRUE, err |-> NoErr,
          value |->
              [variant |-> variant,
               vals |-> [f \in 1..Len(schema.fields) |->
                   IF schema.has_payload
                      /\ schema.fields[f].name = schema.payload.name
                   THEN body.v
                   ELSE walk.got[part_of(schema, schema.fields[f].name)]]]]

\* __mqttitem__parse_<Variant>: the topic walk, then the payload, then the
\* value built from the fields.  Layers past the pattern are never read.
parse_fn(variant, schema, ls, payload) ==
    parsed_fields(variant, schema,
        topic_parse(schema, ls, 1, [ok |-> TRUE, err |-> NoErr, got |-> <<>>]),
        payload_deserialize(schema, payload))

\* if let Ok(field) = parse_fn(...) { return Ok(field) }: the value of a
\* candidate that matched, else the candidates after it.
RECURSIVE variant_parse(_, _, _, _)
first_ok(field, gen, k, topic, payload) ==
    IF field.ok THEN field
    ELSE variant_parse(gen, k + 1, topic, payload)

\* A wrong variant_parse: `?` on each candidate, so that the first failure
\* is returned.
variant_parse_try(gen, k, topic, payload) ==
    IF k > Len(gen)
    THEN [ok |-> FALSE, value |-> NoValue, err |-> Err("Invalid", <<>>, <<>>)]
    ELSE parse_fn(gen[k].variant, gen[k].schema, layers(topic), payload)

\* #(#variant_parse)* and the final Err(Invalid): the generator entries in
\* their sorted order, the first Ok returned.
variant_parse(gen, k, topic, payload) ==
    IF k > Len(gen)
    THEN [ok |-> FALSE, value |-> NoValue, err |-> Err("Invalid", <<>>, <<>>)]
    ELSE first_ok(parse_fn(gen[k].variant, gen[k].schema,
                           layers(topic), payload),
                  gen, k, topic, payload)

\* MqttItem::from_topic_and_payload as generated
from_topic_and_payload(gen, topic, payload) ==
    variant_parse(gen, 1, topic, payload)

(***************************************************************************)
(* The inputs of the model: the enums the macro is run on, the values that *)
(* are encoded and the messages that arrive.                               *)
(***************************************************************************)
Param(path) == <<"<">> \o path \o <<">">>

Attr(s) == [set |-> TRUE, s |-> s]
NoAttr == [set |-> FALSE, s |-> <<>>]

Variant(kind, fields, topic, payload, ser, de) ==
    [kind |-> kind, fields |-> fields, topic |-> topic, payload |-> payload,
     ser |-> ser, de |-> de]

fName == <<"n">>
fId == <<"i">>
fPayload == <<"p">>
litA == <<"a">>
litB == <<"b">>

\* { name: String, id: u32 }
NameId == <<[name |-> fName, ty |-> "String"], [name |-> fId, ty |-> "u32"]>>
\* { name: String, id: u32, payload: String }
NameIdPayload ==
    <<[name |-> fName, ty |-> "String"], [name |-> fId, ty |-> "u32"],
      [name |-> fPayload, ty |-> "String"]>>
\* { name: String, id: Option<u32> }
NameOptId == <<[name |-> fName, ty |-> "String"], [name |-> fId, ty |-> "OptionU32"]>>
\* (u32)
TupleU32 == <<[name |-> <<>>, ty |-> "u32"]>>

\* Variants the macro accepts one by one.
Accepted ==
    { Variant("Named", NameIdPayload, Attr(JoinSlash(<<Param(fId), Param(fName)>>)),
              Attr(Param(fPayload)), FALSE, FALSE),
      Variant("Named", NameIdPayload,
              Attr(JoinSlash(<<Param(fId), Param(fName), Param(fPayload)>>)),
              NoAttr, FALSE, FALSE),
      Variant("Named", NameId, Attr(Param(fId)), Attr(Param(fName)), FALSE, FALSE),
      Variant("Named", NameId, Attr(Param(fName)), Attr(Param(fId)), FALSE, FALSE),
      Variant("Named", NameId, Attr(JoinSlash(<<Param(fName), Param(fId)>>)),
              NoAttr, FALSE, FALSE),
      Variant("Unnamed", TupleU32, Attr(JoinSlash(<<litA, Param(<<"0">>)>>)),
              NoAttr, FALSE, FALSE),
      Variant("Unnamed", TupleU32, Attr(JoinSlash(<<litB, Param(<<"0">>)>>)),
              NoAttr, FALSE, FALSE),
      Variant("Unnamed", TupleU32, Attr(JoinSlash(<<litA, litB>>)),
              Attr(Param(<<"0">>)), FALSE, FALSE),
      Variant("Unnamed", TupleU32, Attr(<<>>), Attr(Param(<<"0">>)),
              FALSE, FALSE) }
    \cup
    { Variant("Named", NameOptId, Attr(JoinSlash(<<litB, Param(fName)>>)),
              Attr(Param(fId)), ser, de) : ser \in BOOLEAN, de \in BOOLEAN }

\* Variants the macro rejects.
Rejected ==
    { Variant("Named", NameIdPayload, Attr(JoinSlash(<<Param(fId), Param(fName)>>)),
              NoAttr, FALSE, FALSE),
      Variant("Named", NameId, Attr(Param(fId)), NoAttr, FALSE, FALSE),
      Variant("Named", NameId, Attr(litA), NoAttr, FALSE, FALSE),
      Variant("Named", NameId, Attr(JoinSlash(<<Param(fId), Param(fId)>>)),
              NoAttr, FALSE, FALSE),
      Variant("Named", NameId, Attr(JoinSlash(<<Param(fId), Param(fName)>>)),
              Attr(Param(fId)), FALSE, FALSE),
      Variant("Named", NameId,
              Attr(JoinSlash(<<Param(<<"x">>), Param(fId), Param(fId)>>)),
              Attr(Param(fName)), FALSE, FALSE),
      Variant("Named", NameId, Attr(JoinSlash(<<Param(fId), <<>>, Param(fName)>>)),
              NoAttr, FALSE, FALSE),
      Variant("Named", NameId, Attr(JoinSlash(<<Param(fId), Param(fId), <<>>>>)),
              Attr(Param(fName)), FALSE, FALSE),
      Variant("Named", NameId, Attr(Param(fId)), Attr(fName), FALSE, FALSE),
      Variant("Unnamed", TupleU32, Attr(Param(<<"z">>)), NoAttr, FALSE, FALSE),
      Variant("Unnamed", TupleU32, Attr(Param(<<"1">>)), NoAttr, FALSE, FALSE),
      Variant("Unnamed", TupleU32,
              Attr(JoinSlash(<<Param(<<"0">>), Param(<<"0", "0">>)>>)),
              NoAttr, FALSE, FALSE),
      Variant("Unit", <<>>, Attr(litA), NoAttr, FALSE, FALSE),
      Variant("Named", NameId, NoAttr, NoAttr, FALSE, FALSE) }

Variants == Accepted \cup Rejected

\* The enums: up to MaxVariants variants, named by their position.
Enums == UNION { [1..len -> Variants] : len \in 0..MaxVariants }

\* The texts a String field holds: empty, plain, digits, with a '/'.
Strings == { <<>>, litA, <<"1">>, <<"a", Slash, "b">> }

U32s == 0..MaxU32

\* The values of a field of a type.
ValuesOfType(ty) ==
    IF ty = "String" THEN { StringV(s) : s \in Strings }
    ELSE IF ty = "u32" THEN { U32V(u) : u \in U32s }
    ELSE { NoneV } \cup { SomeV(u) : u \in U32s }

\* The values of a variant: one value of its type per field.
RECURSIVE FieldValues(_, _)
FieldValues(fields, k) ==
    IF k > Len(fields) THEN { <<>> }
    ELSE { <<v>> \o rest : v \in ValuesOfType(fields[k].ty),
                           rest \in FieldValues(fields, k + 1) }

ValuesOf(g) ==
    { [variant |-> g.variant, vals |-> vs] :
        vs \in FieldValues(g.schema.fields, 1) }

\* The tokens of the pattern strings the pattern functions are called on.
Tokens == { litA, litB, Param(fId), Param(fName) }

\* The patterns of up to MaxParts parts, each parsed from its string.
Patterns ==
    { from_string(JoinSlash(ts)).parts :
        ts \in UNION { [1..len -> Tokens] : len \in 0..MaxParts } }

\* The topics of the messages that arrive from elsewhere.
WireTopics ==
    { JoinSlash(ls) : ls \in
        { <<<<>>>>, <<litA>>, <<<<"1">>>>, <<<<"+", "1">>>>, <<<<"x">>>>,
          <<<<"1">>, litA>>, <<litA, <<"1">>>>, <<litA, litB>>, <<litB, litA>>, <<litA, <<"x">>>>,
          <<<<"1">>, <<>>>>, <<<<>>, <<"1">>>>,
          <<<<"1">>, litA, litB>>, <<litA, <<"1">>, litB>>, <<litB, litA, <<"0", "1">>>>,
          <<<<"1">>, litA, litB, litA>> } }

\* Their payloads.
WirePayloads ==
    { <<>>, <<"1">>, <<"0", "1">>, Null, <<Quote, "a", Quote>>,
      <<"a", BadByte>> }

\* The texts of up to n characters over an alphabet.
RECURSIVE Texts(_, _)
Texts(alphabet, n) ==
    IF n = 0 THEN { <<>> }
    ELSE LET shorter == Texts(alphabet, n - 1)
         IN  shorter \cup { Append(t, c) : t \in shorter, c \in alphabet }

\* The topics a layer is pushed to, and the layers that are pushed.
TopicTexts == Texts({ "a", Slash }, MaxChars)

\* The pattern strings Topic::from_string is called on.
PatternTexts == Texts({ "a", Slash, "<", ">" }, MaxPattern)

\* The topic and the payload buffer a value is pushed into: new ones, and
\* ones that hold a layer and a byte already.
Buffers == { <<new, <<>>>>, <<litA, <<>>>>, <<new, <<"1">>>>, <<litA, <<"1">>>> }

(***************************************************************************)
(* The state machine.                                                      *)
(***************************************************************************)
NoWire == [set |-> FALSE, topic |-> <<>>, payload |-> <<>>]
NoResult == [ok |-> FALSE, value |-> NoValue, err |-> NoErr]
NoCall == [op |-> "none", self |-> <<>>, other |-> <<>>]
NoRet == [set |-> FALSE]

Init ==
    /\ pc = "source"
    /\ en = <<>>
    /\ topics = <<>>
    /\ generator = <<>>
    /\ generic = <<>>
    /\ abort = NoAbort
    /\ wire = NoWire
    /\ sent = NoValue
    /\ result = NoResult
    /\ call = NoCall
    /\ ret = NoRet

\* #[derive(MqttItem)] on an enum: impl_for_enum runs to its end or to its
\* first abort!, which fails the build.
Derive ==
    /\ pc = "source"
    /\ \E variants \in Enums :
         \E out \in { impl_for_enum(variants) } :
             /\ en' = variants
             /\ topics' = out.topics
             /\ generator' = out.generator
             /\ generic' = out.generic
             /\ abort' = out.abort
             /\ pc' = IF out.abort = NoAbort THEN "derived" ELSE "aborted"
    /\ UNCHANGED <<wire, sent, result, call, ret>>

\* The generator entry of a variant.
entry_of(gen, variant) ==
    gen[CHOOSE k \in 1..Len(gen) : gen[k].variant = variant]

\* value.into_topic_and_payload(), the pair handed to the transport.
Encode ==
    /\ pc = "derived"
    /\ ~wire.set
    /\ \E g \in { generator[k] : k \in 1..Len(generator) } :
         \E value \in ValuesOf(g) :
            \E out \in { into_topic_and_payload(g.schema, value) } :
                /\ wire' = [set |-> TRUE, topic |-> out.topic,
                            payload |-> out.payload]
                /\ sent' = value
    /\ result' = NoResult
    /\ UNCHANGED <<pc, en, topics, generator, generic, abort, call, ret>>

\* A message of some other publisher arrives.
Receive ==
    /\ pc = "derived"
    /\ ~wire.set
    /\ \E topic \in WireTopics, payload \in WirePayloads :
         wire' = [set |-> TRUE, topic |-> topic, payload |-> payload]
    /\ sent' = NoValue
    /\ result' = NoResult
    /\ UNCHANGED <<pc, en, topics, generator, generic, abort, call, ret>>

\* Self::from_topic_and_payload(topic, &payload) on the pair in flight.
Decode ==
    /\ pc = "derived"
    /\ wire.set
    /\ result = NoResult
    /\ result' = from_topic_and_payload(generator, wire.topic, wire.payload)
    /\ UNCHANGED <<pc, en, topics, generator, generic, abort, wire, sent,
                   call, ret>>

\* The call has returned: the pair and what was made of it are dropped.
Return ==
    /\ pc = "derived"
    /\ result # NoResult
    /\ wire' = NoWire
    /\ sent' = NoValue
    /\ result' = NoResult
    /\ UNCHANGED <<pc, en, topics, generator, generic, abort, call, ret>>

Next ==
    \/ Derive
    \/ Encode
    \/ Receive
    \/ Decode
    \/ Return

Spec == Init /\ [][Next]_vars

\* The subscriber alone: every message comes from some other publisher.
NextDecode ==
    \/ Derive
    \/ Receive
    \/ Decode
    \/ Return

SpecDecode == Init /\ [][NextDecode]_vars

(***************************************************************************)
(* The functions of the pattern type, each called on its own.              *)
(***************************************************************************)
\* t1 == t2 on two patterns
CallEq ==
    /\ call = NoCall
    /\ \E self \in Patterns, other \in Patterns :
         /\ call' = [op |-> "eq", self |-> self, other |-> other]
         /\ ret' = [set |-> TRUE, eq |-> Topic_eq(self, other)]
    /\ UNCHANGED <<pc, en, topics, generator, generic, abort, wire, sent,
                   result>>

\* topic.filter_string()
CallFilterString ==
    /\ call = NoCall
    /\ \E self \in Patterns :
         /\ call' = [op |-> "filter_string", self |-> self, other |-> <<>>]
         /\ ret' = [set |-> TRUE, filter |-> filter_string(self)]
    /\ UNCHANGED <<pc, en, topics, generator, generic, abort, wire, sent,
                   result>>

NextCall ==
    \/ CallEq
    \/ CallFilterString

SpecCall == Init /\ [][NextCall]_vars

(***************************************************************************)
(* The functions of the run-time Topic, each called on its own.            *)
(***************************************************************************)
\* topic.push(layer)
CallPush ==
    /\ call = NoCall
    /\ \E inner \in TopicTexts, layer \in TopicTexts :
         /\ call' = [op |-> "push", self |-> inner, other |-> layer]
         /\ ret' = [set |-> TRUE, inner |-> push(inner, layer)]
    /\ UNCHANGED <<pc, en, topics, generator, generic, abort, wire, sent,
                   result>>

\* topic.push_front(layer)
CallPushFront ==
    /\ call = NoCall
    /\ \E inner \in TopicTexts, layer \in TopicTexts :
         /\ call' = [op |-> "push_front", self |-> inner, other |-> layer]
         /\ ret' = [set |-> TRUE, inner |-> push_front(inner, layer)]
    /\ UNCHANGED <<pc, en, topics, generator, generic, abort, wire, sent,
                   result>>

NextTopic ==
    \/ CallPush
    \/ CallPushFront

SpecTopic == Init /\ [][NextTopic]_vars

(***************************************************************************)
(* The two encoding functions of a derived enum, each called on its own.   *)
(***************************************************************************)
\* value.into_topic_and_payload()
CallInto ==
    /\ pc = "derived"
    /\ call = NoCall
    /\ \E g \in { generator[k] : k \in 1..Len(generator) } :
         \E value \in ValuesOf(g) :
            \E out \in { into_topic_and_payload(g.schema, value) } :
                /\ call' = [op |-> "into_topic_and_payload",
                            self |-> <<new, <<>>>>, other |-> value]
                /\ ret' = [set |-> TRUE, topic |-> out.topic,
                           payload |-> out.payload]
    /\ UNCHANGED <<pc, en, topics, generator, generic, abort, wire, sent,
                   result>>

\* value.push_topic_and_payload(&mut topic, &mut payload) on the buffers
\* of the caller.
CallPushInto ==
    /\ pc = "derived"
    /\ call = NoCall
    /\ \E g \in { generator[k] : k \in 1..Len(generator) } :
         \E value \in ValuesOf(g), buffer \in Buffers :
            \E out \in { push_topic_and_payload(g.schema, value,
                                                 buffer[1], buffer[2]) } :
                /\ call' = [op |-> "push_topic_and_payload",
                            self |-> buffer, other |-> value]
                /\ ret' = [set |-> TRUE, topic |-> out.topic,
                           payload |-> out.payload]
    /\ UNCHANGED <<pc, en, topics, generator, generic, abort, wire, sent,
                   result>>

NextEncode ==
    \/ Derive
    \/ CallInto
    \/ CallPushInto

SpecEncode == Init /\ [][NextEncode]_vars

(***************************************************************************)
(* The parser of the pattern type, called on its own.                      *)
(***************************************************************************)
\* Topic::from_string(input, on): the pattern, or the abort! that ends the
\* expansion.
CallFromString ==
    /\ call = NoCall
    /\ \E input \in PatternTexts :
         \E topic \in { from_string(input) } :
            /\ call' = [op |-> "from_string", self |-> input, other |-> <<>>]
            /\ ret' = [set |-> TRUE, ok |-> topic.ok, parts |-> topic.parts]
    /\ UNCHANGED <<pc, en, topics, generator, generic, abort, wire, sent,
                   result>>

NextParse == CallFromString

SpecParse == Init /\ [][NextParse]_vars

(***************************************************************************)
(* The properties.  What the documentation says of a pattern is restated   *)
(* here from the text of a variant, without the functions of the macro.    *)
(***************************************************************************)
\* Two patterns are equivalent: equal length and, at every position, the
\* same literal on both sides or a parameter on one of them.
Equivalent(p1, p2) ==
    /\ Len(p1) = Len(p2)
    /\ \A k \in 1..Len(p1) :
          \/ p1[k].kind = "Literal" /\ p2[k].kind = "Literal" /\ p1[k].s = p2[k].s
          \/ p1[k].kind = "Ident"
          \/ p2[k].kind = "Ident"

\* The filter of a pattern: "+" for a parameter, the text of a literal,
\* joined by '/'.
Filter(p1) ==
    JoinSlash([k \in 1..Len(p1) |->
                 IF p1[k].kind = "Ident" THEN <<"+">> ELSE p1[k].s])

\* The tokens of a variant's topic attribute.
TokensOf(variant) ==
    IF variant.topic.s = <<>> THEN <<>> ELSE split(variant.topic.s)

\* A text wrapped as <name>.
Bracketed(tok) == tok # <<>> /\ tok[1] = "<" /\ tok[Len(tok)] = ">"

Inner(tok) == SubSeq(tok, 2, Len(tok) - 1)

\* The pattern a variant's topic attribute describes.
PatternOf(variant) ==
    LET toks == TokensOf(variant)
    IN  [k \in 1..Len(toks) |->
            IF Bracketed(toks[k]) THEN Ident(Inner(toks[k]))
            ELSE Literal(toks[k])]

\* The name of a variant's k-th declared field: a tuple's is its index.
DeclName(variant, k) ==
    IF variant.kind = "Unnamed" THEN u32_to_string(k - 1)
    ELSE variant.fields[k].name

\* The declared field a binding names (0 when it names none).
RefIndex(variant, path) ==
    LET idx == u32_parse(path)
        named == { k \in 1..Len(variant.fields) :
                     IF variant.kind = "Unnamed"
                     THEN idx.ok /\ idx.n = k - 1
                     ELSE variant.fields[k].name = path }
    IN  IF named = {} THEN 0 ELSE CHOOSE k \in named : TRUE

\* The bindings of a variant in the order they are processed: the payload
\* attribute, then the parameters of the pattern from left to right.
RECURSIVE ParamPaths(_)
ParamPaths(toks) ==
    IF toks = <<>> THEN <<>>
    ELSE (IF Bracketed(Head(toks)) THEN <<Inner(Head(toks))>> ELSE <<>>)
         \o ParamPaths(Tail(toks))

Bindings(variant) ==
    (IF variant.payload.set /\ Bracketed(variant.payload.s)
     THEN <<Inner(variant.payload.s)>> ELSE <<>>)
    \o ParamPaths(TokensOf(variant))

\* The declared field each binding names, binding by binding.
Refs(variant) ==
    LET bs == Bindings(variant)
    IN  [m \in 1..Len(bs) |-> RefIndex(variant, bs[m])]

\* How many bindings name the k-th declared field.
RefCount(variant, k) ==
    LET refs == Refs(variant)
    IN  Cardinality({ m \in 1..Len(refs) : refs[m] = k })

\* The attributes are well formed: fields, a topic without an empty layer,
\* a payload written as <field_name>.
WellFormed(variant) ==
    /\ variant.kind # "Unit"
    /\ variant.topic.set
    /\ LET toks == TokensOf(variant)
       IN  \A k \in 1..Len(toks) : toks[k] # <<>>
    /\ variant.payload.set => Bracketed(variant.payload.s)

Resolves(variant) ==
    LET refs == Refs(variant)
    IN  \A m \in 1..Len(refs) : refs[m] # 0

\* The names of the declared fields no binding names, as declared.
RECURSIVE UnreferencedFrom(_, _)
UnreferencedFrom(variant, k) ==
    IF k > Len(variant.fields) THEN <<>>
    ELSE (IF RefCount(variant, k) = 0 THEN <<DeclName(variant, k)>> ELSE <<>>)
         \o UnreferencedFrom(variant, k + 1)

Unreferenced(variant) == UnreferencedFrom(variant, 1)

\* Every binding names a declared field, and every declared field is named
\* by exactly one binding.
ExactlyOnce(variant) ==
    LET refs == Refs(variant)
    IN  /\ \A m \in 1..Len(refs) : refs[m] # 0
        /\ \A k \in 1..Len(variant.fields) :
              Cardinality({ m \in 1..Len(refs) : refs[m] = k }) = 1

\* The schema of a variant can be constructed.
Constructs(variant) == WellFormed(variant) /\ ExactlyOnce(variant)

\* The variant the expansion was at when it aborted (0 when it did not).
Stopped == IF pc = "aborted" THEN Len(topics) + 1 ELSE 0

\* The attempt of one generator entry on the pair in flight.
Attempt(g) == parse_fn(g.variant, g.schema, layers(wire.topic), wire.payload)

Invalid == [ok |-> FALSE, value |-> NoValue, err |-> Err("Invalid", <<>>, <<>>)]

\* C3: two patterns compare equal exactly when they are equivalent, and
\* patterns of different length never do.
C3_PatternEquivalence ==
    call.op = "eq" =>
        /\ ret.eq <=> Equivalent(call.self, call.other)
        /\ Len(call.self) # Len(call.other) => ~ret.eq

\* C3: a literal was compared to a parameter, and the patterns are equal.
C3_Witness ==
    /\ call.op = "eq"
    /\ ret.eq
    /\ Len(call.self) = MaxParts
    /\ \E k \in 1..Len(call.self) :
          call.self[k].kind = "Literal" /\ call.other[k].kind = "Ident"
    /\ \E k \in 1..Len(call.self) :
          call.self[k].kind = "Literal" /\ call.other[k] = call.self[k]

\* C9: the filter string of a pattern is its parts joined by '/', "+" for
\* a parameter and the text for a literal, with no '/' at either end; the
\* pattern without parts gives the empty string.
C9_FilterString ==
    call.op = "filter_string" =>
        /\ ret.filter = Filter(call.self)
        /\ Len(call.self) = 0 => ret.filter = <<>>
        /\ ret.filter # <<>> =>
              ret.filter[1] # Slash /\ ret.filter[Len(ret.filter)] # Slash

\* C9: the filter of a pattern with a parameter and a literal was taken.
C9_Witness ==
    /\ call.op = "filter_string"
    /\ Len(call.self) = MaxParts
    /\ \E k \in 1..Len(call.self) : call.self[k].kind = "Ident"
    /\ \E k \in 1..Len(call.self) : call.self[k].kind = "Literal"
    /\ Len(ret.filter) >= Len(call.self)

\* C2: a variant whose pattern is equivalent to the pattern of a variant
\* before it is rejected with both variants named, whatever its parameters
\* are called; the patterns that are registered are never equivalent.
C2_NoEquivalentPatterns ==
    /\ \A j \in 1..Len(topics), k \in 1..Len(topics) :
          j < k => ~Equivalent(PatternOf(en[j]), PatternOf(en[k]))
    /\ pc = "derived" => Len(topics) = Len(en)
    /\ ( /\ pc = "aborted"
         /\ Constructs(en[Stopped])
         /\ \E j \in 1..Len(topics) :
               Equivalent(PatternOf(en[j]), PatternOf(en[Stopped])) )
       => /\ abort.kind = "SameTopicFilter"
          /\ Len(abort.variants) = 2
          /\ abort.variants[2] = Stopped
          /\ abort.variants[1] \in 1..Len(topics)
          /\ Equivalent(PatternOf(en[abort.variants[1]]),
                        PatternOf(en[Stopped]))

\* C2: two variants with parameters of different names were found to have
\* the same topic filter.
C2_Witness ==
    /\ pc = "aborted"
    /\ abort.kind = "SameTopicFilter"
    /\ \E k \in 1..Len(PatternOf(en[Stopped])) :
          /\ PatternOf(en[Stopped])[k].kind = "Ident"
          /\ PatternOf(en[abort.variants[1]])[k].kind = "Ident"
          /\ PatternOf(en[Stopped])[k] # PatternOf(en[abort.variants[1]])[k]

\* C4: the generator holds every variant once, longer patterns first and
\* patterns of one length in the order of the variants; the value decode
\* returns is of a variant that no variant before it in that order matches.
C4_DispatchOrder ==
    pc = "derived" =>
        LET parts == [v \in 1..Len(en) |-> Len(PatternOf(en[v]))]
        IN  /\ Len(generator) = Len(en)
            /\ { generator[k].variant : k \in 1..Len(generator) } = 1..Len(en)
            /\ \A j \in 1..Len(generator), k \in 1..Len(generator) :
                  j < k =>
                    \/ parts[generator[j].variant] > parts[generator[k].variant]
                    \/ /\ parts[generator[j].variant]
                            = parts[generator[k].variant]
                       /\ generator[j].variant < generator[k].variant
            /\ result.ok =>
                  \A k \in 1..Len(generator) :
                     ( \/ parts[generator[k].variant]
                            > parts[result.value.variant]
                       \/ /\ parts[generator[k].variant]
                               = parts[result.value.variant]
                          /\ generator[k].variant < result.value.variant )
                     => ~Attempt(generator[k]).ok

\* C4: the longer pattern of the second variant was decoded although the
\* shorter pattern of the first variant matches the topic too.
C4_Witness ==
    /\ pc = "derived"
    /\ result.ok
    /\ result.value.variant = 2
    /\ Len(PatternOf(en[1])) < Len(PatternOf(en[2]))
    /\ \E k \in 1..Len(generator) :
          generator[k].variant = 1 /\ Attempt(generator[k]).ok

\* C5: decode returns what the first entry of the generator that matches
\* returns, and Invalid when none matches; it returns no other error.
C5_DecodeOutcome ==
    result # NoResult =>
        LET oks == { k \in 1..Len(generator) : Attempt(generator[k]).ok }
        IN  /\ oks = {} => result = Invalid
            /\ oks # {} =>
                  /\ result.ok
                  /\ result = Attempt(generator[
                         CHOOSE k \in oks : \A j \in oks : k <= j])
            /\ ~result.ok => result.err.kind = "Invalid"

\* C5: decode returned Invalid after candidates failed on a topic layer
\* and on the payload.
C5_Witness ==
    /\ result = Invalid
    /\ \E k \in 1..Len(generator) :
          Attempt(generator[k]).err.kind = "InvalidTopicLayer"
    /\ \E k \in 1..Len(generator) :
          Attempt(generator[k]).err.kind \in {"NotUtf8", "Serde"}

\* The number of segments of a topic: none for the empty topic, else one
\* more than it has '/'.
SegmentCount(topic) ==
    IF topic = <<>> THEN 0
    ELSE 1 + Cardinality({ k \in 1..Len(topic) : topic[k] = Slash })

\* C6: a candidate whose pattern has another number of parts than the
\* topic has layers does not match, and a topic whose number of layers is
\* the length of no pattern decodes to Invalid.
C6_SegmentCountRejects ==
    wire.set =>
        /\ \A k \in 1..Len(generator) :
              SegmentCount(wire.topic) # Len(PatternOf(en[generator[k].variant]))
                 => ~Attempt(generator[k]).ok
        /\ ( /\ result # NoResult
             /\ \A k \in 1..Len(en) :
                   SegmentCount(wire.topic) # Len(PatternOf(en[k])) )
           => result = Invalid

\* C10: the filter strings are those of the variants, in the order of the
\* variants, and no string is there twice.
C10_AllGenericTopics ==
    pc = "derived" =>
        /\ Len(generic) = Len(en)
        /\ \A k \in 1..Len(generic) : generic[k] = Filter(PatternOf(en[k]))
        /\ \A j \in 1..Len(generic), k \in 1..Len(generic) :
              j # k => generic[j] # generic[k]

\* C10: the filter strings of an enum whose second variant is tried first.
C10_Witness ==
    /\ pc = "derived"
    /\ Len(generic) = MaxVariants
    /\ generator[1].variant = 2
    /\ generic[1] = Filter(PatternOf(en[1]))

\* The value was encoded without loss: its variant has a pattern of one part
\* or more, serializes and deserializes its payload with the same codec,
\* and the text of every field bound to a parameter is not empty and holds
\* no '/'.
Lossless(value) ==
    LET variant == en[value.variant]
    IN  /\ Len(PatternOf(variant)) >= 1
        /\ variant.ser = variant.de
        /\ \A m \in 1..Len(ParamPaths(TokensOf(variant))) :
              LET text == to_string(value.vals[
                              RefIndex(variant, ParamPaths(TokensOf(variant))[m])])
              IN  /\ text # <<>>
                  /\ \A c \in 1..Len(text) : text[c] # Slash

\* C1 as claimed: what is decoded from an encoded value is that value.
C1_RoundTrip ==
    (sent # NoValue /\ result # NoResult) =>
        result.ok /\ result.value = sent

\* C1: what is decoded from a value that was encoded without loss is that
\* value: same variant, same fields.
C1_RoundTripLossless ==
    (sent # NoValue /\ result # NoResult /\ Lossless(sent)) =>
        result.ok /\ result.value = sent

\* C1: a value with a payload came back from an enum in which the variant
\* of another pattern is tried first.
C1_Witness ==
    /\ sent # NoValue
    /\ Lossless(sent)
    /\ result.ok
    /\ result.value = sent
    /\ Len(generator) = MaxVariants
    /\ generator[1].variant # sent.variant
    /\ en[sent.variant].payload.set
    /\ Len(wire.payload) > 0

\* C7 as claimed: a variant is accepted only if every declared field is
\* named by exactly one binding, and a variant with a field no binding
\* names is rejected with the list of exactly those fields (read here of
\* the variants whose attributes are well formed and whose bindings all
\* name a declared field).
C7_FieldCoverage ==
    /\ \A k \in 1..Len(topics) : ExactlyOnce(en[k])
    /\ ( /\ pc = "aborted"
         /\ WellFormed(en[Stopped])
         /\ Resolves(en[Stopped])
         /\ Unreferenced(en[Stopped]) # <<>> )
       => abort = Abort("NotPartOfTopicOrPayload", Unreferenced(en[Stopped]))

\* C7: a variant is accepted only if every declared field is named by
\* exactly one binding; a variant whose attributes are well formed, whose
\* bindings all name a declared field, none twice, and which leaves a
\* field unnamed is rejected with the list of exactly the unnamed fields.
C7_FieldCoverageUnused ==
    /\ \A k \in 1..Len(topics) : ExactlyOnce(en[k])
    /\ ( /\ pc = "aborted"
         /\ WellFormed(en[Stopped])
         /\ Resolves(en[Stopped])
         /\ \A f \in 1..Len(en[Stopped].fields) : RefCount(en[Stopped], f) <= 1
         /\ Unreferenced(en[Stopped]) # <<>> )
       => abort = Abort("NotPartOfTopicOrPayload", Unreferenced(en[Stopped]))

\* C7: { name, id, payload } with the topic "<id>/<name>" and no payload
\* was rejected for its field payload.
C7_Witness ==
    /\ pc = "aborted"
    /\ Len(en[Stopped].fields) = 3
    /\ PatternOf(en[Stopped]) = <<Ident(fId), Ident(fName)>>
    /\ ~en[Stopped].payload.set
    /\ abort = Abort("NotPartOfTopicOrPayload", <<fPayload>>)

\* The first binding, in the order of processing, that names no declared
\* field or a field an earlier binding names (0 when there is none).
FirstFault(variant) ==
    LET bs == Bindings(variant)
        faulty == { m \in 1..Len(bs) :
                      \/ RefIndex(variant, bs[m]) = 0
                      \/ \E j \in 1..(m - 1) :
                            RefIndex(variant, bs[j]) = RefIndex(variant, bs[m]) }
    IN  IF faulty = {} THEN 0
        ELSE CHOOSE m \in faulty : \A j \in faulty : m <= j

\* C8 as claimed: a variant with a declared field that two bindings name is
\* rejected as naming that field more than once (read here of the variants
\* whose attributes are well formed).
C8_DuplicateField ==
    ( /\ pc = "aborted"
      /\ WellFormed(en[Stopped])
      /\ \E f \in 1..Len(en[Stopped].fields) : RefCount(en[Stopped], f) >= 2 )
    => /\ abort.kind = "SpecifiedMoreThanOnce"
       /\ \E f \in 1..Len(en[Stopped].fields) :
             /\ RefCount(en[Stopped], f) >= 2
             /\ abort.names = <<DeclName(en[Stopped], f)>>

\* C8: a variant whose attributes are well formed and whose first faulty
\* binding, in the order payload, then parameters from left to right, names
\* a field that an earlier binding names is rejected as naming that field
\* more than once.
C8_DuplicateFieldFirst ==
    ( /\ pc = "aborted"
      /\ WellFormed(en[Stopped])
      /\ FirstFault(en[Stopped]) # 0
      /\ RefIndex(en[Stopped],
                  Bindings(en[Stopped])[FirstFault(en[Stopped])]) # 0 )
    => abort = Abort("SpecifiedMoreThanOnce",
                     <<DeclName(en[Stopped],
                          RefIndex(en[Stopped],
                              Bindings(en[Stopped])[FirstFault(en[Stopped])]))>>)

\* C8: a variant was rejected for a field that its payload and a parameter
\* of its pattern both name.
C8_Witness ==
    /\ pc = "aborted"
    /\ abort.kind = "SpecifiedMoreThanOnce"
    /\ en[Stopped].payload.set
    /\ abort.names = <<Inner(en[Stopped].payload.s)>>
    /\ RefCount(en[Stopped], RefIndex(en[Stopped], abort.names[1])) = 2

\* A text starts with a '/'.
Leads(text) == text # <<>> /\ text[1] = Slash

\* A text ends with a '/'.
Trails(text) == text # <<>> /\ text[Len(text)] = Slash

\* What push and push_front are said to leave: the layer alone in an empty
\* topic, else the topic, a '/' and the layer, the layer at the back for
\* push and at the front for push_front.
Pushed ==
    /\ call.op = "push" =>
          ret.inner = IF call.self = <<>> THEN call.other
                      ELSE call.self \o <<Slash>> \o call.other
    /\ call.op = "push_front" =>
          ret.inner = IF call.self = <<>> THEN call.other
                      ELSE call.other \o <<Slash>> \o call.self

\* The topic left has no '/' at its start or at its end that neither the
\* topic nor the layer had there.
NoSlashAdded ==
    /\ Leads(ret.inner) => Leads(call.self) \/ Leads(call.other)
    /\ Trails(ret.inner) => Trails(call.self) \/ Trails(call.other)

\* C11 as claimed: push and push_front leave the topic described, and no
\* '/' at its start or end that was not in the topic or the layer.
C11_PushNoSlash ==
    call.op \in {"push", "push_front"} => Pushed /\ NoSlashAdded

\* C11: push and push_front leave the topic described, and when the layer
\* is not empty, no '/' at its start or end that was not in the topic or
\* the layer.
C11_PushLayer ==
    call.op \in {"push", "push_front"} =>
        /\ Pushed
        /\ call.other # <<>> => NoSlashAdded

\* C11: a layer was pushed to the front of a topic of two layers.
C11_Witness ==
    /\ call.op = "push_front"
    /\ call.other # <<>>
    /\ ~Leads(call.other) /\ ~Trails(call.other)
    /\ Len(call.self) = MaxChars
    /\ \E k \in 2..(Len(call.self) - 1) : call.self[k] = Slash
    /\ Len(ret.inner) = Len(call.self) + Len(call.other) + 1

\* A text is a number as JSON writes a u32: digits, no zero in front.
Decimal(text) ==
    /\ text # <<>>
    /\ \A k \in 1..Len(text) : text[k] \in { Digits[d] : d \in 1..Len(Digits) }
    /\ Len(text) > 1 => text[1] # "0"

\* A text is a string as JSON writes it (a text of the model needs no
\* escape): a '"' at both ends and none between.
Quoted(text) ==
    /\ Len(text) >= 2
    /\ text[1] = Quote /\ text[Len(text)] = Quote
    /\ \A k \in 2..(Len(text) - 1) : text[k] # Quote

\* What the deserializer of the tests makes of a payload for an Option<u32>:
\* no byte is an absent value, a number is that value, all else an error.
HookDecodes(payload) ==
    IF payload = <<>> THEN [ok |-> TRUE, v |-> NoneV]
    ELSE IF Decimal(payload)
    THEN [ok |-> TRUE, v |-> SomeV(DecimalValue(payload))]
    ELSE [ok |-> FALSE, v |-> NoneV]

\* What the default codec, JSON, makes of a payload for a field of a type.
DefaultDecodes(ty, payload) ==
    IF ty = "String" /\ Quoted(payload)
    THEN [ok |-> TRUE, v |-> StringV(SubSeq(payload, 2, Len(payload) - 1))]
    ELSE IF ty = "u32" /\ Decimal(payload)
    THEN [ok |-> TRUE, v |-> U32V(DecimalValue(payload))]
    ELSE IF ty = "OptionU32" /\ payload = Null
    THEN [ok |-> TRUE, v |-> NoneV]
    ELSE IF ty = "OptionU32" /\ Decimal(payload)
    THEN [ok |-> TRUE, v |-> SomeV(DecimalValue(payload))]
    ELSE [ok |-> FALSE, v |-> NoneV]

\* The declared field the payload attribute of a variant names.
PayloadIndex(variant) == RefIndex(variant, Inner(variant.payload.s))

\* What the codec a variant declares makes of a payload.
Decodes(variant, payload) ==
    IF variant.de THEN HookDecodes(payload)
    ELSE DefaultDecodes(variant.fields[PayloadIndex(variant)].ty, payload)

\* The topic in flight passes the topic walk of a generator entry.
Walks(g) ==
    topic_parse(g.schema, layers(wire.topic), 1,
                [ok |-> TRUE, err |-> NoErr, got |-> <<>>]).ok

\* C12: a candidate with a payload field whose topic walk passes matches
\* exactly when the deserializer it declares, and the default codec when it
\* declares none, accepts the payload, and its payload field is then what
\* that codec made of the payload; so is the payload field of the value
\* decode returns.
C12_CodecHook ==
    wire.set =>
        /\ \A k \in 1..Len(generator) :
              LET variant == en[generator[k].variant]
                  codec == Decodes(variant, wire.payload)
                  field == Attempt(generator[k])
              IN  (variant.payload.set /\ Walks(generator[k])) =>
                      /\ field.ok <=> codec.ok
                      /\ field.ok =>
                            field.value.vals[PayloadIndex(variant)] = codec.v
        /\ (result.ok /\ en[result.value.variant].payload.set) =>
              /\ Decodes(en[result.value.variant], wire.payload).ok
              /\ result.value.vals[PayloadIndex(en[result.value.variant])]
                    = Decodes(en[result.value.variant], wire.payload).v

\* C12: the topic "b/a" with no payload was decoded to { name: "a", id:
\* None } by a variant with a deserializer of its own.
C12_Witness ==
    /\ result.ok
    /\ wire.topic = JoinSlash(<<litB, litA>>)
    /\ wire.payload = <<>>
    /\ en[result.value.variant].de
    /\ result.value.vals = <<StringV(litA), NoneV>>

\* C13: a value of a variant without a payload field is encoded with a
\* payload of no bytes, and pushed into a payload buffer it leaves the
\* buffer as it was.
C13_NoPayload ==
    ( /\ call.op \in {"into_topic_and_payload", "push_topic_and_payload"}
      /\ ~en[call.other.variant].payload.set )
    => /\ ret.set
       /\ ret.payload = call.self[2]
       /\ call.op = "into_topic_and_payload" => ret.payload = <<>>

\* C13: a value of a variant without a payload field was pushed into a
\* buffer that held a byte, and its topic into a topic that held a layer.
C13_Witness ==
    /\ call.op = "push_topic_and_payload"
    /\ ~en[call.other.variant].payload.set
    /\ call.self = <<litA, <<"1">>>>
    /\ Len(ret.topic) > Len(litA)
    /\ ret.payload = <<"1">>

\* The texts of the parts of a variant's pattern for a value: the text of
\* a literal, the string form of the field a parameter names.
Segments(variant, value) ==
    LET pattern == PatternOf(variant)
    IN  [k \in 1..Len(pattern) |->
            IF pattern[k].kind = "Literal" THEN pattern[k].s
            ELSE to_string(value.vals[RefIndex(variant, pattern[k].s)])]

\* The first k texts pushed, one after the other, to the empty topic.
RECURSIVE PushedAll(_, _)
PushedAll(texts, k) ==
    IF k = 0 THEN <<>>
    ELSE LET before == PushedAll(texts, k - 1)
         IN  IF before = <<>> THEN texts[k]
             ELSE before \o <<Slash>> \o texts[k]

\* C14 as claimed: the topic of an encoded value is the texts of the parts
\* of its pattern joined by '/', and has as many layers as the pattern has
\* parts.
C14_TopicJoined ==
    call.op = "into_topic_and_payload" =>
        LET texts == Segments(en[call.other.variant], call.other)
        IN  /\ ret.topic = JoinSlash(texts)
            /\ Len(layers(ret.topic)) = Len(texts)

\* C14: the topic of an encoded value is what one push per part of its
\* pattern, in order, leaves of the empty topic; it is the texts of the
\* parts joined by '/' when the first text is not empty or there is one
\* part at most, and its layers are those texts when, further, there is a
\* part and no text holds a '/'.
C14_TopicPushed ==
    call.op = "into_topic_and_payload" =>
        LET texts == Segments(en[call.other.variant], call.other)
            joins == Len(texts) <= 1 \/ texts[1] # <<>>
            plain == \A k \in 1..Len(texts) :
                        \A c \in 1..Len(texts[k]) : texts[k][c] # Slash
        IN  /\ ret.topic = PushedAll(texts, Len(texts))
            /\ joins => ret.topic = JoinSlash(texts)
            /\ (joins /\ plain /\ Len(texts) >= 1) =>
                  /\ layers(ret.topic) = texts
                  /\ Len(layers(ret.topic)) = Len(texts)

\* C14: a value was encoded to a topic of three layers, one per parameter
\* of its pattern.
C14_Witness ==
    /\ call.op = "into_topic_and_payload"
    /\ Len(PatternOf(en[call.other.variant])) = 3
    /\ \A k \in 1..3 :
          /\ Segments(en[call.other.variant], call.other)[k] # <<>>
          /\ \A c \in 1..Len(Segments(en[call.other.variant], call.other)[k]) :
                Segments(en[call.other.variant], call.other)[k][c] # Slash
    /\ layers(ret.topic) = Segments(en[call.other.variant], call.other)

\* A text has an empty token: a '/' at its start, at its end, or two in
\* a row.
EmptyToken(text) ==
    \/ Leads(text)
    \/ Trails(text)
    \/ \E k \in 1..(Len(text) - 1) : text[k] = Slash /\ text[k + 1] = Slash

\* The token a part of a pattern was written as.
Written(part) == IF part.kind = "Ident" THEN Param(part.s) ELSE part.s

\* C15: the empty string parses to the pattern without parts; a string
\* that is not empty and has an empty token is rejected and gives no
\* pattern; any other string parses to one part per token, in order: a
\* parameter for a token written <name>, a literal for any other token.
C15_PatternParsing ==
    call.op = "from_string" =>
        /\ call.self = <<>> => ret.ok /\ ret.parts = <<>>
        /\ (call.self # <<>> /\ EmptyToken(call.self)) =>
              ~ret.ok /\ ret.parts = <<>>
        /\ (call.self # <<>> /\ ~EmptyToken(call.self)) =>
              /\ ret.ok
              /\ Len(ret.parts)
                    = 1 + Cardinality({ k \in 1..Len(call.self) :
                                          call.self[k] = Slash })
              /\ JoinSlash([k \in 1..Len(ret.parts) |-> Written(ret.parts[k])])
                    = call.self
              /\ \A k \in 1..Len(ret.parts) :
                    /\ \A c \in 1..Len(ret.parts[k].s) :
                          ret.parts[k].s[c] # Slash
                    /\ ret.parts[k].kind = "Literal" =>
                          ret.parts[k].s # <<>> /\ ~Bracketed(ret.parts[k].s)

\* C15: a string with a parameter, a literal and two '/' in a row was
\* rejected.
C15_Witness ==
    /\ call.op = "from_string"
    /\ ~ret.ok
    /\ Len(call.self) = MaxPattern
    /\ \E k \in 1..Len(call.self) : call.self[k] = "<"
    /\ \E k \in 1..Len(call.self) : call.self[k] = "a"
    /\ \E k \in 1..(Len(call.self) - 1) :
          call.self[k] = Slash /\ call.self[k + 1] = Slash

\* C16 as claimed: a candidate fails with MissingTopicLayer only for a
\* layer the topic does not have; a literal that meets another layer fails
\* it with an error of another kind.
C16_LayerMismatch ==
    (wire.set /\ wire.topic # <<>>) =>
        \A k \in 1..Len(generator) :
            LET field == Attempt(generator[k])
            IN  (~field.ok /\ field.err.kind = "MissingTopicLayer") =>
                    Len(layers(wire.topic))
                        < Len(PatternOf(en[generator[k].variant]))

\* The other orders the variants of an enum of n variants can be written
\* in: order[k] is the variant written in place k.
Orders(n) ==
    { order \in [1..n -> 1..n] :
        /\ \A j \in 1..n, k \in 1..n : j # k => order[j] # order[k]
        /\ \E k \in 1..n : order[k] # k }

\* The loop of impl_for_enum over the variants in another order, from
\* place k on: impls[v] is what generate_variant_impl makes of variant v.
RECURSIVE ForOrder(_, _, _, _)
ForOrder(impls, order, k, loop) ==
    IF k > Len(order) \/ loop.abort # NoAbort THEN loop
    ELSE ForOrder(impls, order, k + 1,
             find_variant(k, impls[order[k]], loop.topics, loop.generator))

\* What generate_variant_impl makes of each variant of the enum.
Impls == [v \in 1..Len(en) |-> generate_variant_impl(en[v])]

\* What decode makes of the pair in flight when the variants of the enum
\* are written in another order, the variant of the value named as in en.
Reordered(impls, order) ==
    LET loop == ForOrder(impls, order, 1,
                    [abort |-> NoAbort, topics |-> <<>>, generator |-> <<>>])
        field == from_topic_and_payload(sort_by(loop.generator), wire.topic,
                                        wire.payload)
    IN  IF loop.abort # NoAbort
        THEN [abort |-> loop.abort, result |-> NoResult]
        ELSE [abort |-> NoAbort,
              result |-> IF field.ok
                         THEN [field EXCEPT !.value.variant = order[@]]
                         ELSE field]

\* C17: an enum that is derived is derived with its variants in any other
\* order too, and decode then returns for the pair in flight what it
\* returned: the same variant with the same fields, or Invalid.
C17_OrderIndependence ==
    (pc = "derived" /\ result # NoResult) =>
        LET impls == Impls
        IN  \A order \in Orders(Len(en)) :
                LET other == Reordered(impls, order)
                IN  other.abort = NoAbort /\ other.result = result

\* C17: the second of two variants with patterns of one length was
\* decoded, the first failing on its literal.
C17_Witness ==
    /\ pc = "derived"
    /\ Len(en) = MaxVariants
    /\ Len(PatternOf(en[1])) = Len(PatternOf(en[2]))
    /\ result.ok
    /\ result.value.variant = 2
    /\ Attempt(generator[1]).err.kind = "MissingTopicLayer"
    /\ Reordered(Impls, [k \in 1..Len(en) |-> Len(en) + 1 - k]).result = result

=============================================================================
